---- MODULE Spec2Model ----
(***************************************************************************)
(* Model of the two variants of the colour-layout App component:          *)
(*   src/App.tsx           ("App.tsx",  audit starts on reference upload)  *)
(*   src/unnamed/part_000  ("part_000", audit starts on a button click)    *)
(* The host is single threaded: every action below is one event handler   *)
(* or one continuation after an await, run to completion.                  *)
(***************************************************************************)
EXTENDS Integers, Sequences, FiniteSets, Bags, TLC

\* ------------------------------------------------------------------ bounds
\* requests to the model service that may be outstanding at once
MaxInFlight == 2
\* image decodes that may be outstanding at once
MaxPending == 2
\* largest width / height of the images fed to the ratio classifier
MaxDim == 12

\* ------------------------------------------------------------- data values
Variants == {"App.tsx", "part_000"}

\* null / undefined
Null == [null |-> TRUE]

\* an uploaded file: its identity, its pixel size, and whether it decodes
File(n, w, h, ok) == [name |-> n, width |-> w, height |-> h, decodable |-> ok]

refA == File("refA", 4, 3, TRUE)

refB == File("refB", 1, 1, TRUE)

cadA == File("cadA", 1200, 800, TRUE)

cadB == File("cadB", 700, 1000, TRUE)

corrupt == File("corrupt", 0, 0, FALSE)

\* the resolution tiers of the size buttons
ImageSizes == {"1K", "2K", "4K"}

\* what the user works with in one session: the files at hand, the values
\* the strength slider is dragged to, and the size buttons that are pressed
Desk(refs, linearts, strengths, sizes) == [ref |-> refs, lineart |-> linearts, strength |-> strengths, size |-> sizes]

Disks == {Desk({refA, refB}, {cadA}, {}, {}), Desk({refA}, {cadA, cadB}, {}, {}), Desk({refA}, {cadA, corrupt}, {}, {}), Desk({refA}, {cadA}, {50}, {}), Desk({refA}, {cadA}, {}, ImageSizes \ {"1K"})}

\* FileReader.readAsDataURL: "data:<mime>;base64,<bytes of the file>"
readAsDataURL(f) == [mime |-> "file", payload |-> [name |-> f.name, width |-> f.width, height |-> f.height, decodable |-> f.decodable, flattened |-> FALSE]]

\* canvas.toDataURL('image/png') of the white-filled canvas the image was drawn on
toDataURL(img) == [mime |-> "image/png", payload |-> [img.payload EXCEPT !.flattened = TRUE]]

\* dataUrl.split(',')[1]: the base64 payload of a data URL
splitPayload(url) == url.payload

\* the empty string
EmptyText == [text |-> ""]

\* JavaScript truthiness of a state value (null, undefined and "" are falsy)
Truthy(v) == v # Null /\ v # EmptyText

\* response.text || ""
TextOrEmpty(t) == IF Truthy(t) THEN t ELSE EmptyText

\* ------------------------------------------------------ ratio classification
\* width / height is an IEEE double.  1.5 is a double; the literals 1.2, 0.6
\* and 0.8 denote the doubles nearest to them, and the quotient of two
\* integers below 2^50 rounds to the same double as the literal exactly when
\* it equals the decimal, so each comparison is the comparison of the exact
\* quotient with the decimal threshold, written here without division.
\* mutant: the two landscape tests in the wrong order
calculateAspectRatio_swapped(width, height) ==
  IF 5 * width > 6 * height THEN "4:3"
  ELSE IF 2 * width > 3 * height THEN "16:9"
  ELSE IF 5 * width < 3 * height THEN "9:16"
  ELSE IF 5 * width < 4 * height THEN "3:4"
  ELSE "1:1"

\* mutant: the first threshold is inclusive (ratio >= 1.5)
calculateAspectRatio_inclusive(width, height) ==
  IF 2 * width >= 3 * height THEN "16:9"
  ELSE IF 5 * width > 6 * height THEN "4:3"
  ELSE IF 5 * width < 3 * height THEN "9:16"
  ELSE IF 5 * width < 4 * height THEN "3:4"
  ELSE "1:1"

calculateAspectRatio(width, height) ==
  IF 2 * width > 3 * height THEN "16:9"
  ELSE IF 5 * width > 6 * height THEN "4:3"
  ELSE IF 5 * width < 3 * height THEN "9:16"
  ELSE IF 5 * width < 4 * height THEN "3:4"
  ELSE "1:1"

\* mutant: every comparison is non-strict
classifyInline_nonStrict(width, height) ==
  IF 2 * width >= 3 * height THEN "16:9"
  ELSE IF 5 * width >= 6 * height THEN "4:3"
  ELSE IF 5 * width =< 3 * height THEN "9:16"
  ELSE IF 5 * width =< 4 * height THEN "3:4"
  ELSE "1:1"

\* the if / else-if chain of img.onload in part_000
classifyInline(width, height) ==
  IF 2 * width > 3 * height THEN "16:9"
  ELSE IF 5 * width > 6 * height THEN "4:3"
  ELSE IF 5 * width < 3 * height THEN "9:16"
  ELSE IF 5 * width < 4 * height THEN "3:4"
  ELSE "1:1"

\* ------------------------------------------------------------------- state
\* variant, disk, apiKey: fixed per session (apiKey until a key is saved)
\* refImage .. showKeyModal: the component's useState cells
\* decodes: bag of images whose decode is pending
\* inflight: bag of requests the model service has not answered
\* last: the handler that ran last and what it surfaced to the user
VARIABLES variant, disk, refImage, lineartImage, aspectRatio, resultImage, status, styleDesc, styleStrength, selectedSize, apiKey, showKeyModal, decodes, inflight, last

vars == <<variant, disk, refImage, lineartImage, aspectRatio, resultImage, status, styleDesc, styleStrength, selectedSize, apiKey, showKeyModal, decodes, inflight, last>>

Did(op, signals) == [op |-> op, signals |-> signals]

One(x) == SetToBag({x})

\* useState<number>(100) for fidelity in App.tsx, useState<number>(80) for
\* styleStrength in part_000
DefaultStrength(v) == IF v = "App.tsx" THEN 100 ELSE 80

\* state after construction (useState initial values, then the mount effect)
Init ==
  /\ variant \in Variants
  /\ disk \in Disks
  /\ refImage = Null
  /\ lineartImage = Null
  /\ aspectRatio = "1:1"
  /\ resultImage = Null
  /\ status = "idle"
  /\ styleDesc = EmptyText
  /\ styleStrength = DefaultStrength(variant)
  /\ selectedSize = "1K"
  /\ apiKey \in BOOLEAN
  /\ showKeyModal = FALSE
  /\ decodes = EmptyBag
  /\ inflight = EmptyBag
  /\ last = Did("mount", {})

\* ------------------------------------------------- the model service's answers
\* the text an audit of the reference image with payload p yields
describe(p) == [text |-> "palette", of |-> p.name]

\* response.text of a fulfilled audit request: absent, empty, or a description
AuditTexts(req) == {Null, EmptyText, describe(req.data)}

\* an inline image part and a text part of a synthesis response
ImagePart(p, n) == [inlineData |-> [data |-> [rendered |-> p.name, take |-> n]]]

TextPart == [text |-> "commentary"]

HasInlineData(part) == "inlineData" \in DOMAIN part

\* the responses of a fulfilled synthesis request: without candidates, or
\* with response.candidates[0].content.parts
SynthResponses(req) == {[candidates |-> FALSE, parts |-> <<>>]} \cup {[candidates |-> TRUE, parts |-> ps] : ps \in {<<TextPart>>, <<ImagePart(req.data, 1)>>, <<TextPart, ImagePart(req.data, 1), ImagePart(req.data, 2)>>}}

\* a rejected request: err.message, given by the probed substrings it contains
Err(label, contains) == [label |-> label, contains |-> contains]

Errors == {Err("Requested entity was not found.", {"Requested entity was not found", "not found"}), Err("API key not valid. API_KEY_INVALID", {"API_KEY_INVALID"}), Err("403 Forbidden", {"403"}), Err("429 Too Many Requests", {"429"}), Err("Failed to fetch", {})}

\* err.message?.includes(needle)
includes(err, needle) == needle \in err.contains

\* mutant: the last part carrying inline data is taken
RECURSIVE find_last(_)
find_last(parts) ==
  IF parts = <<>> THEN Null
  ELSE IF find_last(Tail(parts)) # Null THEN find_last(Tail(parts))
  ELSE IF HasInlineData(Head(parts)) THEN Head(parts)
  ELSE Null

\* parts.find(p => p.inlineData)
RECURSIVE find(_)
find(parts) ==
  IF parts = <<>> THEN Null
  ELSE IF HasInlineData(Head(parts)) THEN Head(parts)
  ELSE find(Tail(parts))

\* `data:image/png;base64,${part.inlineData.data}`
resultURL(part) == [mime |-> "image/png", payload |-> part.inlineData.data]

\* ---------------------------------------------------------------- requests
auditRequest(data) == [kind |-> "audit", data |-> splitPayload(data), mimeType |-> "image/jpeg"]

\* mutant: the request always asks for the default resolution tier
synthesisRequest_defaultSize == [kind |-> "synth", data |-> splitPayload(lineartImage), mimeType |-> "image/png", prompt |-> [descriptor |-> styleDesc, ratio |-> aspectRatio], aspectRatio |-> aspectRatio, imageSize |-> "1K"]

\* App.tsx: the prompt embeds dnaStream and aspectRatio
synthesisRequest == [kind |-> "synth", data |-> splitPayload(lineartImage), mimeType |-> "image/png", prompt |-> [descriptor |-> styleDesc, ratio |-> aspectRatio], aspectRatio |-> aspectRatio, imageSize |-> selectedSize]

\* part_000: the prompt embeds styleDesc and styleStrength
renderRequest == [kind |-> "synth", data |-> splitPayload(lineartImage), mimeType |-> "image/png", prompt |-> [descriptor |-> styleDesc, strength |-> styleStrength], aspectRatio |-> aspectRatio, imageSize |-> selectedSize]

\* ----------------------------------------------------------------- uploads
\* App.tsx auditNeuralDNA up to its await: no guard on status
auditNeuralDNA(imageData) ==
  /\ BagCardinality(inflight) < MaxInFlight
  /\ status' = "analyzing"
  /\ inflight' = inflight (+) One(auditRequest(imageData))

\* App.tsx handleFileUpload.  onChange only starts a FileReader; the state is
\* first touched in reader.onload, which is the step modelled here.
handleFileUploadApp(type, f) ==
  /\ variant = "App.tsx"
  /\ f \in disk[type]
  /\ LET data == readAsDataURL(f) IN
       IF type = "ref"
       THEN /\ refImage' = data
            /\ auditNeuralDNA(data)
            /\ UNCHANGED decodes
       ELSE /\ BagCardinality(decodes) < MaxPending
            /\ decodes' = decodes (+) One(data)
            /\ UNCHANGED <<refImage, status, inflight>>
  /\ last' = Did("upload." \o type, {})
  /\ UNCHANGED <<variant, disk, styleStrength, selectedSize, disk, lineartImage, aspectRatio, resultImage, styleDesc, apiKey, showKeyModal>>

\* part_000 handleFileUpload, at reader.onload
handleFileUploadPart(type, f) ==
  /\ variant = "part_000"
  /\ f \in disk[type]
  /\ LET data == readAsDataURL(f) IN
       IF type = "ref"
       THEN /\ refImage' = data
            /\ styleDesc' = EmptyText
            /\ UNCHANGED <<lineartImage, resultImage, decodes>>
       ELSE /\ BagCardinality(decodes) < MaxPending
            /\ lineartImage' = data
            /\ resultImage' = Null
            /\ decodes' = decodes (+) One(data)
            /\ UNCHANGED <<refImage, styleDesc>>
  /\ last' = Did("upload." \o type, {})
  /\ UNCHANGED <<variant, disk, styleStrength, selectedSize, disk, aspectRatio, status, apiKey, showKeyModal, inflight>>

\* mutant: the upload keeps the render result
imgOnloadApp_keepResult(img) ==
  /\ variant = "App.tsx"
  /\ BagIn(img, decodes)
  /\ img.payload.decodable
  /\ decodes' = decodes (-) One(img)
  /\ lineartImage' = toDataURL(img)
  /\ aspectRatio' = calculateAspectRatio(img.payload.width, img.payload.height)
  /\ last' = Did("img.onload", {})
  /\ UNCHANGED <<variant, disk, styleStrength, selectedSize, refImage, resultImage, status, styleDesc, apiKey, showKeyModal, inflight>>

\* App.tsx img.onload inside processLineart, and the continuation of its await
imgOnloadApp(img) ==
  /\ variant = "App.tsx"
  /\ BagIn(img, decodes)
  /\ img.payload.decodable
  /\ decodes' = decodes (-) One(img)
  /\ lineartImage' = toDataURL(img)
  /\ aspectRatio' = calculateAspectRatio(img.payload.width, img.payload.height)
  /\ resultImage' = Null
  /\ last' = Did("img.onload", {})
  /\ UNCHANGED <<variant, disk, styleStrength, selectedSize, disk, refImage, status, styleDesc, apiKey, showKeyModal, inflight>>

\* part_000 img.onload
imgOnloadPart(img) ==
  /\ variant = "part_000"
  /\ BagIn(img, decodes)
  /\ img.payload.decodable
  /\ decodes' = decodes (-) One(img)
  /\ aspectRatio' = classifyInline(img.payload.width, img.payload.height)
  /\ last' = Did("img.onload", {})
  /\ UNCHANGED <<variant, disk, styleStrength, selectedSize, disk, refImage, lineartImage, resultImage, status, styleDesc, apiKey, showKeyModal, inflight>>

\* the image fails to decode: neither variant sets img.onerror, nothing runs
imgOnerror(img) ==
  /\ BagIn(img, decodes)
  /\ ~img.payload.decodable
  /\ decodes' = decodes (-) One(img)
  /\ last' = Did("img.onerror", {})
  /\ UNCHANGED <<variant, disk, styleStrength, selectedSize, disk, refImage, lineartImage, aspectRatio, resultImage, status, styleDesc, apiKey, showKeyModal, inflight>>

\* ---------------------------------------------------------------- triggers
\* part_000 "analyze" button (disabled = !refImage || status === 'analyzing')
\* and analyzeStyle up to its await
analyzeStyle ==
  /\ variant = "part_000"
  /\ IF ~Truthy(refImage) \/ status = "analyzing"
     THEN /\ last' = Did("analyzeStyle.disabled", {})
          /\ UNCHANGED <<status, inflight, showKeyModal>>
     ELSE IF ~apiKey
     THEN /\ showKeyModal' = TRUE
          /\ last' = Did("analyzeStyle.nokey", {"showKeyModal"})
          /\ UNCHANGED <<status, inflight>>
     ELSE /\ BagCardinality(inflight) < MaxInFlight
          /\ status' = "analyzing"
          /\ inflight' = inflight (+) One(auditRequest(refImage))
          /\ last' = Did("analyzeStyle", {})
          /\ UNCHANGED showKeyModal
  /\ UNCHANGED <<variant, disk, styleStrength, selectedSize, refImage, lineartImage, aspectRatio, resultImage, styleDesc, apiKey, decodes>>

\* mutant: setStatus('rendering') runs before the line-art guard
executeSynthesis_statusFirst ==
  /\ variant = "App.tsx"
  /\ IF status # "idle"
     THEN /\ last' = Did("executeSynthesis.disabled", {})
          /\ UNCHANGED <<status, inflight>>
     ELSE IF ~Truthy(lineartImage)
     THEN /\ status' = "rendering"
          /\ last' = Did("executeSynthesis.disabled", {})
          /\ UNCHANGED inflight
     ELSE /\ BagCardinality(inflight) < MaxInFlight
          /\ status' = "rendering"
          /\ inflight' = inflight (+) One(synthesisRequest)
          /\ last' = Did("executeSynthesis", {})
  /\ UNCHANGED <<variant, disk, styleStrength, selectedSize, refImage, lineartImage, aspectRatio, resultImage, styleDesc, apiKey, showKeyModal, decodes>>

\* App.tsx "synthesize" button (disabled = status !== 'idle' || !lineartImage)
\* and executeSynthesis up to its await
executeSynthesis ==
  /\ variant = "App.tsx"
  /\ IF status # "idle" \/ ~Truthy(lineartImage)
     THEN /\ last' = Did("executeSynthesis.disabled", {})
          /\ UNCHANGED <<status, inflight>>
     ELSE /\ BagCardinality(inflight) < MaxInFlight
          /\ status' = "rendering"
          /\ inflight' = inflight (+) One(synthesisRequest)
          /\ last' = Did("executeSynthesis", {})
  /\ UNCHANGED <<variant, disk, styleStrength, selectedSize, refImage, lineartImage, aspectRatio, resultImage, styleDesc, apiKey, showKeyModal, decodes>>

\* mutant: neither the button nor the handler looks at styleDesc
renderLayout_noDescriptorGuard ==
  /\ variant = "part_000"
  /\ IF status # "idle" \/ ~Truthy(lineartImage)
     THEN /\ last' = Did("renderLayout.disabled", {})
          /\ UNCHANGED <<status, inflight, showKeyModal>>
     ELSE IF ~apiKey
     THEN /\ showKeyModal' = TRUE
          /\ last' = Did("renderLayout.nokey", {"showKeyModal"})
          /\ UNCHANGED <<status, inflight>>
     ELSE /\ BagCardinality(inflight) < MaxInFlight
          /\ status' = "rendering"
          /\ inflight' = inflight (+) One(renderRequest)
          /\ last' = Did("renderLayout", {})
          /\ UNCHANGED showKeyModal
  /\ UNCHANGED <<variant, disk, styleStrength, selectedSize, refImage, lineartImage, aspectRatio, resultImage, styleDesc, apiKey, decodes>>

\* part_000 "render" button (disabled = status !== 'idle' || !lineartImage ||
\* !styleDesc) and renderLayout up to its await
renderLayout ==
  /\ variant = "part_000"
  /\ IF status # "idle" \/ ~Truthy(lineartImage) \/ ~Truthy(styleDesc)
     THEN /\ last' = Did("renderLayout.disabled", {})
          /\ UNCHANGED <<status, inflight, showKeyModal>>
     ELSE IF ~apiKey
     THEN /\ showKeyModal' = TRUE
          /\ last' = Did("renderLayout.nokey", {"showKeyModal"})
          /\ UNCHANGED <<status, inflight>>
     ELSE /\ BagCardinality(inflight) < MaxInFlight
          /\ status' = "rendering"
          /\ inflight' = inflight (+) One(renderRequest)
          /\ last' = Did("renderLayout", {})
          /\ UNCHANGED showKeyModal
  /\ UNCHANGED <<variant, disk, styleStrength, selectedSize, refImage, lineartImage, aspectRatio, resultImage, styleDesc, apiKey, decodes>>

\* ------------------------------------------------------------- completions
\* App.tsx auditNeuralDNA after its await, request fulfilled
auditFulfilled(req, text) ==
  /\ variant = "App.tsx"
  /\ BagIn(req, inflight)
  /\ req.kind = "audit"
  /\ text \in AuditTexts(req)
  /\ styleDesc' = TextOrEmpty(text)
  /\ status' = "idle"
  /\ inflight' = inflight (-) One(req)
  /\ last' = Did("audit.fulfilled", {})
  /\ UNCHANGED <<variant, disk, styleStrength, selectedSize, refImage, lineartImage, aspectRatio, resultImage, apiKey, showKeyModal, decodes>>

\* mutant: the catch block also resets the descriptor
auditRejected_clearsDescriptor(req, err) ==
  /\ variant = "App.tsx"
  /\ BagIn(req, inflight)
  /\ req.kind = "audit"
  /\ err \in Errors
  /\ status' = "idle"
  /\ styleDesc' = EmptyText
  /\ inflight' = inflight (-) One(req)
  /\ last' = Did("audit.rejected", {"console.error"} \cup (IF includes(err, "Requested entity was not found") THEN {"openSelectKey"} ELSE {}))
  /\ UNCHANGED <<variant, disk, styleStrength, selectedSize, refImage, lineartImage, aspectRatio, resultImage, apiKey, showKeyModal, decodes>>

\* App.tsx auditNeuralDNA after its await, request rejected
auditRejected(req, err) ==
  /\ variant = "App.tsx"
  /\ BagIn(req, inflight)
  /\ req.kind = "audit"
  /\ err \in Errors
  /\ status' = "idle"
  /\ inflight' = inflight (-) One(req)
  /\ last' = Did("audit.rejected", {"console.error"} \cup (IF includes(err, "Requested entity was not found") THEN {"openSelectKey"} ELSE {}))
  /\ UNCHANGED <<variant, disk, styleStrength, selectedSize, refImage, lineartImage, aspectRatio, resultImage, styleDesc, apiKey, showKeyModal, decodes>>

\* mutant: a response without text is reported and the descriptor is kept
analyzeFulfilled_noTextFails(req, text) ==
  /\ variant = "part_000"
  /\ BagIn(req, inflight)
  /\ req.kind = "audit"
  /\ text \in AuditTexts(req)
  /\ IF text = Null
     THEN /\ last' = Did("audit.fulfilled", {"alert.analysisBlocked"})
          /\ UNCHANGED styleDesc
     ELSE /\ last' = Did("audit.fulfilled", {})
          /\ styleDesc' = TextOrEmpty(text)
  /\ status' = "idle"
  /\ inflight' = inflight (-) One(req)
  /\ UNCHANGED <<variant, disk, styleStrength, selectedSize, refImage, lineartImage, aspectRatio, resultImage, apiKey, showKeyModal, decodes>>

\* part_000 analyzeStyle after its await, request fulfilled
analyzeFulfilled(req, text) ==
  /\ variant = "part_000"
  /\ BagIn(req, inflight)
  /\ req.kind = "audit"
  /\ text \in AuditTexts(req)
  /\ styleDesc' = TextOrEmpty(text)
  /\ status' = "idle"
  /\ inflight' = inflight (-) One(req)
  /\ last' = Did("audit.fulfilled", {})
  /\ UNCHANGED <<variant, disk, styleStrength, selectedSize, refImage, lineartImage, aspectRatio, resultImage, apiKey, showKeyModal, decodes>>

\* part_000 analyzeStyle after its await, request rejected
analyzeRejected(req, err) ==
  /\ variant = "part_000"
  /\ BagIn(req, inflight)
  /\ req.kind = "audit"
  /\ err \in Errors
  /\ IF includes(err, "API_KEY_INVALID") \/ includes(err, "403")
     THEN /\ showKeyModal' = TRUE
          /\ last' = Did("audit.rejected", {"console.error", "setHasKey(false)", "alert.keyInvalid", "showKeyModal"})
     ELSE /\ last' = Did("audit.rejected", {"console.error", "alert.analysisBlocked"})
          /\ UNCHANGED <<showKeyModal>>
  /\ status' = "idle"
  /\ inflight' = inflight (-) One(req)
  /\ UNCHANGED <<variant, disk, styleStrength, selectedSize, refImage, lineartImage, aspectRatio, resultImage, styleDesc, apiKey, decodes>>

\* App.tsx executeSynthesis after its await, request fulfilled
synthesisFulfilled(req, response) ==
  /\ variant = "App.tsx"
  /\ BagIn(req, inflight)
  /\ req.kind = "synth"
  /\ response \in SynthResponses(req)
  /\ LET part == IF response.candidates THEN find(response.parts) ELSE Null IN
       IF part # Null
       THEN resultImage' = resultURL(part)
       ELSE UNCHANGED resultImage
  /\ status' = "idle"
  /\ inflight' = inflight (-) One(req)
  /\ last' = Did("synth.fulfilled", {})
  /\ UNCHANGED <<variant, disk, styleStrength, selectedSize, refImage, lineartImage, aspectRatio, styleDesc, apiKey, showKeyModal, decodes>>

\* mutant: no finally block, the rejection leaves status as it is
synthesisRejected_noFinally(req, err) ==
  /\ variant = "App.tsx"
  /\ BagIn(req, inflight)
  /\ req.kind = "synth"
  /\ err \in Errors
  /\ inflight' = inflight (-) One(req)
  /\ last' = Did("synth.rejected", {"console.error"} \cup (IF includes(err, "429") \/ includes(err, "not found") THEN {"alert.keyFailed", "openSelectKey"} ELSE {}))
  /\ UNCHANGED <<variant, disk, styleStrength, selectedSize, refImage, lineartImage, aspectRatio, resultImage, status, styleDesc, apiKey, showKeyModal, decodes>>

\* App.tsx executeSynthesis after its await, request rejected
synthesisRejected(req, err) ==
  /\ variant = "App.tsx"
  /\ BagIn(req, inflight)
  /\ req.kind = "synth"
  /\ err \in Errors
  /\ status' = "idle"
  /\ inflight' = inflight (-) One(req)
  /\ last' = Did("synth.rejected", {"console.error"} \cup (IF includes(err, "429") \/ includes(err, "not found") THEN {"alert.keyFailed", "openSelectKey"} ELSE {}))
  /\ UNCHANGED <<variant, disk, styleStrength, selectedSize, refImage, lineartImage, aspectRatio, resultImage, styleDesc, apiKey, showKeyModal, decodes>>

\* part_000 renderLayout after its await, request fulfilled; a response
\* without candidates throws inside the try and lands in the catch
renderFulfilled(req, response) ==
  /\ variant = "part_000"
  /\ BagIn(req, inflight)
  /\ req.kind = "synth"
  /\ response \in SynthResponses(req)
  /\ IF ~response.candidates
     THEN /\ last' = Did("synth.fulfilled", {"console.error", "alert.renderFailed"})
          /\ UNCHANGED resultImage
     ELSE /\ last' = Did("synth.fulfilled", {})
          /\ IF find(response.parts) # Null
             THEN resultImage' = resultURL(find(response.parts))
             ELSE UNCHANGED resultImage
  /\ status' = "idle"
  /\ inflight' = inflight (-) One(req)
  /\ UNCHANGED <<variant, disk, styleStrength, selectedSize, refImage, lineartImage, aspectRatio, styleDesc, apiKey, showKeyModal, decodes>>

\* mutant: no finally block, the rejection leaves status as it is
renderRejected_noFinally(req, err) ==
  /\ variant = "part_000"
  /\ BagIn(req, inflight)
  /\ req.kind = "synth"
  /\ err \in Errors
  /\ inflight' = inflight (-) One(req)
  /\ last' = Did("synth.rejected", {"console.error", "alert.renderFailed"})
  /\ UNCHANGED <<variant, disk, styleStrength, selectedSize, refImage, lineartImage, aspectRatio, resultImage, status, styleDesc, apiKey, showKeyModal, decodes>>

\* part_000 renderLayout after its await, request rejected
renderRejected(req, err) ==
  /\ variant = "part_000"
  /\ BagIn(req, inflight)
  /\ req.kind = "synth"
  /\ err \in Errors
  /\ status' = "idle"
  /\ inflight' = inflight (-) One(req)
  /\ last' = Did("synth.rejected", {"console.error", "alert.renderFailed"})
  /\ UNCHANGED <<variant, disk, styleStrength, selectedSize, refImage, lineartImage, aspectRatio, resultImage, styleDesc, apiKey, showKeyModal, decodes>>

\* ------------------------------------------------------------ other controls
\* part_000 saveApiKey; valid = the typed key has at least 10 characters
saveApiKey(valid) ==
  /\ variant = "part_000"
  /\ showKeyModal
  /\ IF valid
     THEN /\ apiKey' = TRUE
          /\ showKeyModal' = FALSE
          /\ last' = Did("saveApiKey", {"setHasKey(true)"})
     ELSE /\ last' = Did("saveApiKey", {"alert.enterValidKey"})
          /\ UNCHANGED <<apiKey, showKeyModal>>
  /\ UNCHANGED <<variant, disk, styleStrength, selectedSize, refImage, lineartImage, aspectRatio, resultImage, status, styleDesc, decodes, inflight>>

\* part_000 key button in the nav bar (open = TRUE), cancel button of the modal
setShowKeyModal(open) ==
  /\ variant = "part_000"
  /\ open = ~showKeyModal
  /\ showKeyModal' = open
  /\ last' = Did("setShowKeyModal", {})
  /\ UNCHANGED <<variant, disk, styleStrength, selectedSize, refImage, lineartImage, aspectRatio, resultImage, status, styleDesc, apiKey, decodes, inflight>>

\* the strength slider (onChange): setFidelity in App.tsx, setStyleStrength
\* in part_000
setStyleStrength(v) ==
  /\ v \in disk["strength"] \cup {DefaultStrength(variant)}
  /\ v # styleStrength
  /\ styleStrength' = v
  /\ last' = Did("setStyleStrength", {})
  /\ UNCHANGED <<variant, disk, refImage, lineartImage, aspectRatio, resultImage, status, styleDesc, selectedSize, apiKey, showKeyModal, decodes, inflight>>

\* a size button (onClick)
setSelectedSize(s) ==
  /\ s \in disk["size"]
  /\ selectedSize' = s
  /\ last' = Did("setSelectedSize", {})
  /\ UNCHANGED <<variant, disk, refImage, lineartImage, aspectRatio, resultImage, status, styleDesc, styleStrength, apiKey, showKeyModal, decodes, inflight>>

\* App.tsx "discard session" button, shown when resultImage && status === 'idle'
discardResult ==
  /\ variant = "App.tsx"
  /\ resultImage # Null
  /\ status = "idle"
  /\ resultImage' = Null
  /\ last' = Did("discardResult", {})
  /\ UNCHANGED <<variant, disk, styleStrength, selectedSize, refImage, lineartImage, aspectRatio, status, styleDesc, apiKey, showKeyModal, decodes, inflight>>

\* ------------------------------------------------------------ specification
Next ==
  \/ \E type \in {"ref", "lineart"} : \E f \in disk[type] : handleFileUploadApp(type, f)
  \/ \E type \in {"ref", "lineart"} : \E f \in disk[type] : handleFileUploadPart(type, f)
  \/ \E img \in BagToSet(decodes) : imgOnloadApp(img)
  \/ \E img \in BagToSet(decodes) : imgOnloadPart(img)
  \/ \E img \in BagToSet(decodes) : imgOnerror(img)
  \/ analyzeStyle
  \/ executeSynthesis
  \/ renderLayout
  \/ \E req \in BagToSet(inflight) : \E text \in AuditTexts(req) : auditFulfilled(req, text)
  \/ \E req \in BagToSet(inflight), err \in Errors : auditRejected(req, err)
  \/ \E req \in BagToSet(inflight) : \E text \in AuditTexts(req) : analyzeFulfilled(req, text)
  \/ \E req \in BagToSet(inflight), err \in Errors : analyzeRejected(req, err)
  \/ \E req \in BagToSet(inflight) : \E response \in SynthResponses(req) : synthesisFulfilled(req, response)
  \/ \E req \in BagToSet(inflight), err \in Errors : synthesisRejected(req, err)
  \/ \E req \in BagToSet(inflight) : \E response \in SynthResponses(req) : renderFulfilled(req, response)
  \/ \E req \in BagToSet(inflight), err \in Errors : renderRejected(req, err)
  \/ \E valid \in BOOLEAN : saveApiKey(valid)
  \/ setShowKeyModal(TRUE)
  \/ setShowKeyModal(FALSE)
  \/ discardResult
  \/ \E v \in disk["strength"] \cup {DefaultStrength(variant)} : setStyleStrength(v)
  \/ \E s \in disk["size"] : setSelectedSize(s)

Spec == Init /\ [][Next]_vars

\* --------------------------------------- specification of the classification
\* sizes named by the specification's scenarios
Fixtures == {<<1000, 1000>>, <<1600, 900>>, <<900, 1000>>, <<700, 1000>>, <<500, 1000>>, <<1200, 800>>}

Sizes == ((1..MaxDim) \X (1..MaxDim)) \cup Fixtures

\* a session whose only file is one line-art image of any size
InitRatio ==
  /\ variant \in Variants
  /\ disk \in {Desk({}, {File("cad", wh[1], wh[2], TRUE)}, {}, {}) : wh \in Sizes}
  /\ refImage = Null
  /\ lineartImage = Null
  /\ aspectRatio = "1:1"
  /\ resultImage = Null
  /\ status = "idle"
  /\ styleDesc = EmptyText
  /\ styleStrength = DefaultStrength(variant)
  /\ selectedSize = "1K"
  /\ apiKey = TRUE
  /\ showKeyModal = FALSE
  /\ decodes = EmptyBag
  /\ inflight = EmptyBag
  /\ last = Did("mount", {})

NextRatio ==
  \/ \E f \in disk.lineart : handleFileUploadApp("lineart", f)
  \/ \E f \in disk.lineart : handleFileUploadPart("lineart", f)
  \/ \E img \in BagToSet(decodes) : imgOnloadApp(img)
  \/ \E img \in BagToSet(decodes) : imgOnloadPart(img)

SpecRatio == InitRatio /\ [][NextRatio]_vars

\* ------------------------------------------------------------------ claims
\* number of requests of one kind the service has not answered
InFlightOf(kind) == BagCardinality([r \in {x \in BagToSet(inflight) : x.kind = kind} |-> inflight[r]])

\* the last handler delivered the settlement of a request
Settled == last.op \in {"audit.fulfilled", "audit.rejected", "synth.fulfilled", "synth.rejected"}

\* the last handler replaced lineartImage by a new upload
LineartReplaced == (variant = "App.tsx" /\ last.op = "img.onload") \/ (variant = "part_000" /\ last.op = "upload.lineart")

\* C1: an audit request and a synthesis request are never in flight at the
\* same time.
C1_NoAuditWithSynthesis == ~(InFlightOf("audit") > 0 /\ InFlightOf("synth") > 0)

\* C2: two synthesis requests are never in flight at the same time.
C2_SingleSynthesis == InFlightOf("synth") <= 1

\* C3: every step that starts an audit request is taken from a state whose
\* status is 'idle'.
C3_AuditStartsIdle == [][InFlightOf("audit")' > InFlightOf("audit") => status = "idle"]_vars

\* C4: a synthesis request never embeds a descriptor that was extracted from
\* a reference image other than the one held when the request is issued.
C4_DescriptorOfHeldReference == [][\A r \in BagToSet(inflight') : (r.kind = "synth" /\ (~BagIn(r, inflight) \/ inflight'[r] > inflight[r]) /\ Truthy(r.prompt.descriptor)) => (refImage # Null /\ r.prompt.descriptor.of = refImage.payload.name)]_vars

\* C5: in the state that results from a reference upload the style descriptor
\* is empty.
C5_ReferenceUploadClears == last.op = "upload.ref" => styleDesc = EmptyText

\* C6: in the state in which lineartImage has been replaced by a new upload,
\* resultImage is null.
C6_LineartUploadClearsResult == LineartReplaced => (lineartImage # Null /\ resultImage = Null)

C6_Witness == LineartReplaced /\ lineartImage # Null /\ resultImage = Null /\ InFlightOf("synth") > 0

\* C7: in the state that results from the settlement of an audit or synthesis
\* request, fulfilled or rejected, status is 'idle'.
C7_SettledIsIdle == Settled => status = "idle"

C7_Witness == last.op = "synth.rejected" /\ status = "idle" /\ InFlightOf("audit") > 0

\* the bucket the specification's table selects for r = w / h
ReferenceBucket(w, h) ==
  IF 10 * w > 15 * h THEN "16:9"
  ELSE IF 10 * w > 12 * h THEN "4:3"
  ELSE IF 10 * w < 6 * h THEN "9:16"
  ELSE IF 10 * w < 8 * h THEN "3:4"
  ELSE "1:1"

\* the size of the one image of a classification session was classified
Classified(w, h) == last.op = "img.onload" /\ disk.lineart = {File("cad", w, h, TRUE)}

\* C8: after the decode of an image of any size w x h, in either variant, the
\* bucket is the one the table selects for w / h; the five fixtures get
\* 1:1, 16:9, 1:1, 3:4 and 9:16.
C8_MatchesReference ==
  /\ \A f \in disk.lineart : last.op = "img.onload" => aspectRatio = ReferenceBucket(f.width, f.height)
  /\ Classified(1000, 1000) => aspectRatio = "1:1"
  /\ Classified(1600, 900) => aspectRatio = "16:9"
  /\ Classified(900, 1000) => aspectRatio = "1:1"
  /\ Classified(700, 1000) => aspectRatio = "3:4"
  /\ Classified(500, 1000) => aspectRatio = "9:16"

C8_Witness == Classified(1600, 900) /\ aspectRatio = "16:9" /\ variant = "part_000"

\* C9: an image whose ratio is exactly 1.5 is classified 4:3, exactly 1.2 is
\* classified 1:1, exactly 0.6 is classified 3:4 and exactly 0.8 is
\* classified 1:1.
C9_BoundariesFallThrough ==
  \A f \in disk.lineart : last.op = "img.onload" =>
    /\ 2 * f.width = 3 * f.height => aspectRatio = "4:3"
    /\ 5 * f.width = 6 * f.height => aspectRatio = "1:1"
    /\ 5 * f.width = 3 * f.height => aspectRatio = "3:4"
    /\ 5 * f.width = 4 * f.height => aspectRatio = "1:1"

C9_Witness == Classified(3, 5) /\ aspectRatio = "3:4"

\* C10 as stated: for an image of 1200 x 800 the bucket 4:3 is not selected.
C10_Original == Classified(1200, 800) => aspectRatio # "4:3"

\* C10 amended: for an image of 1200 x 800 (ratio exactly 1.5) the bucket
\* 16:9 is not selected; the bucket selected is 4:3.
C10_Amended == Classified(1200, 800) => (aspectRatio # "16:9" /\ aspectRatio = "4:3")

C10_Witness == Classified(1200, 800) /\ aspectRatio = "4:3" /\ variant = "App.tsx"

\* ------------------------------------------------ claims on settled requests
\* a well-formed response none of whose parts carries inline image data
NoInlineImage(response) == response.candidates /\ \A i \in DOMAIN response.parts : ~HasInlineData(response.parts[i])

\* the step is the continuation of a synthesis fulfilled with response
SynthesisSettlesWith(req, response) == synthesisFulfilled(req, response) \/ renderFulfilled(req, response)

\* C11: when a synthesis settles with a response that has no inline-image
\* part, the status is idle and no render result is held afterwards, whatever
\* happened before (an earlier successful synthesis included)
C11_EmptyResponseHoldsNoResult == [][\A req \in BagToSet(inflight) : \A response \in SynthResponses(req) : (SynthesisSettlesWith(req, response) /\ NoInlineImage(response)) => (status' = "idle" /\ resultImage' = Null)]_vars

\* what the catch blocks surface for a request that failed in transport
TransportFailureFlags == {"console.error", "alert.renderFailed", "alert.analysisBlocked"}

\* C12: a synthesis that completes with a well-formed response without an
\* inline-image part surfaces an empty-result condition, something other than
\* what a transport error surfaces, so the two outcomes are never the same
C12_EmptyResultSurfaced == [][\A req \in BagToSet(inflight) : \A response \in SynthResponses(req) : (SynthesisSettlesWith(req, response) /\ NoInlineImage(response)) => (last'.signals \ TransportFailureFlags # {})]_vars

\* the step is the continuation of a request rejected with err
RequestRejectedWith(req, err) == auditRejected(req, err) \/ analyzeRejected(req, err) \/ synthesisRejected(req, err) \/ renderRejected(req, err)

\* the service's credential signals: not found, invalid, rate limited
CredentialSignal(err) == includes(err, "not found") \/ includes(err, "API_KEY_INVALID") \/ includes(err, "429")

\* a failure that carries none of the probed substrings
OrdinaryFailure(err) == err.contains = {}

\* what asks the user to supply the credential again
CredentialFlags == {"openSelectKey", "showKeyModal"}

\* C13: a rejection of an audit or of a synthesis with a credential signal
\* returns the session to idle and asks for the credential again, and a
\* rejection for any other reason does not raise that flag
C13_CredentialErrorFlagged == [][\A req \in BagToSet(inflight) : \A err \in Errors : RequestRejectedWith(req, err) => (status' = "idle" /\ (CredentialSignal(err) => last'.signals \cap CredentialFlags # {}) /\ (OrdinaryFailure(err) => last'.signals \cap CredentialFlags = {}))]_vars

\* the step runs a catch block: every catch block logs the error, after a
\* rejection and after the TypeError part_000 throws on a response without
\* candidates
FailureDelivered == last'.op \in {"audit.rejected", "synth.rejected"} \/ "console.error" \in last'.signals

\* C14: a failure of an audit or of a synthesis leaves refImage, lineartImage,
\* the aspect-ratio bucket, the style descriptor and resultImage as they were
\* just before it was delivered, and sets status to idle
C14_FailureKeepsSession == [][FailureDelivered => (status' = "idle" /\ UNCHANGED <<refImage, lineartImage, aspectRatio, styleDesc, resultImage>>)]_vars

C14_Witness == last.op = "audit.rejected" /\ status = "idle" /\ Truthy(styleDesc) /\ refImage # Null /\ lineartImage # Null /\ resultImage # Null /\ aspectRatio # "1:1"

\* ------------------------------------------------------- claims on uploads
\* the step handles the upload of a line-art file that cannot be decoded, or
\* the failure of its decode
UndecodableLineartStep ==
  \/ \E f \in disk["lineart"] : ~f.decodable /\ (handleFileUploadApp("lineart", f) \/ handleFileUploadPart("lineart", f))
  \/ \E img \in BagToSet(decodes) : imgOnerror(img)

\* C15: when an uploaded line-art image cannot be decoded, lineartImage, the
\* aspect-ratio bucket and resultImage keep their values, and no synthesis
\* request carries an undecodable image
C15_DecodeFailureAborts == [][(UndecodableLineartStep => UNCHANGED <<lineartImage, aspectRatio, resultImage>>) /\ (\A r \in BagToSet(inflight') : r.kind = "synth" => r.data.decodable)]_vars

\* ------------------------------------------------------ claims on triggers
\* the step is a press of the synthesize control, whatever it led to
SynthesizeTriggered == last'.op \in {"executeSynthesis", "executeSynthesis.disabled", "renderLayout", "renderLayout.disabled", "renderLayout.nokey"}

\* C16: a synthesize trigger while no line-art image is held issues no
\* request and changes neither status (idle stays idle) nor any other state
\* variable
C16_NoLineartNoRequest == [][(SynthesizeTriggered /\ ~Truthy(lineartImage)) => (inflight' = inflight /\ status' = status /\ UNCHANGED <<refImage, lineartImage, aspectRatio, resultImage, styleDesc, styleStrength, selectedSize, apiKey, showKeyModal, decodes>>)]_vars

C16_Witness == last.op \in {"executeSynthesis.disabled", "renderLayout.disabled"} /\ lineartImage = Null /\ status = "idle" /\ inflight = EmptyBag /\ Truthy(styleDesc)

\* C17: in part_000 no synthesis request in flight has an empty descriptor, and
\* a synthesize trigger while the descriptor is empty issues no request and
\* changes neither status nor any other state variable
C17_NoRequestWithoutDescriptor == [][variant = "part_000" => ((\A r \in BagToSet(inflight') : r.kind = "synth" => Truthy(r.prompt.descriptor)) /\ ((SynthesizeTriggered /\ ~Truthy(styleDesc)) => (inflight' = inflight /\ status' = status /\ UNCHANGED <<refImage, lineartImage, aspectRatio, resultImage, styleDesc, styleStrength, selectedSize, apiKey, showKeyModal, decodes>>)))]_vars

C17_Witness == variant = "part_000" /\ last.op = "renderLayout.disabled" /\ lineartImage # Null /\ refImage # Null /\ styleDesc = EmptyText /\ status = "idle" /\ inflight = EmptyBag /\ apiKey

\* C18: while no credential is available no step issues a request or moves
\* status away from idle: an audit or synthesize trigger leaves both as they
\* are
C18_NoRequestWithoutCredential == [][~apiKey => (inflight' = inflight /\ status' = status)]_vars

\* ------------------------------------------------ claims on stored responses
\* the part of lowest index that carries inline image data
FirstInline(parts) == parts[CHOOSE i \in DOMAIN parts : HasInlineData(parts[i]) /\ \A j \in 1..(i - 1) : ~HasInlineData(parts[j])]

\* C19: whenever a settled synthesis stores a result, the response has an
\* inline image part and the result is built from the first such part in
\* response order, never from a text part or a later image part
C19_FirstInlinePartStored == [][(last'.op = "synth.fulfilled" /\ resultImage' # resultImage) => \E req \in BagToSet(inflight) : \E response \in SynthResponses(req) : (inflight' = inflight (-) One(req) /\ response.candidates /\ ~NoInlineImage(response) /\ resultImage' = resultURL(FirstInline(response.parts)))]_vars

C19_Witness == last.op = "synth.fulfilled" /\ resultImage # Null /\ lineartImage # Null /\ resultImage = resultURL(FirstInline(<<TextPart, ImagePart(splitPayload(lineartImage), 1), ImagePart(splitPayload(lineartImage), 2)>>))

\* C20: when an audit is fulfilled the descriptor becomes the returned text
\* itself, the empty string when the response has no text, and nothing is
\* flagged as an error
C20_DescriptorIsReturnedText == [][last'.op = "audit.fulfilled" => (last'.signals = {} /\ \A req \in BagToSet(inflight) : \A text \in AuditTexts(req) : (auditFulfilled(req, text) \/ analyzeFulfilled(req, text)) => styleDesc' = (IF text = Null THEN [text |-> ""] ELSE text))]_vars

C20_Witness == last.op = "audit.fulfilled" /\ last.signals = {} /\ styleDesc = [text |-> ""] /\ refImage # Null /\ status = "idle"

\* ------------------------------------------------ claims on request contents
\* the synthesis requests the step has put in flight
IssuedSynthesis == {r \in BagToSet(inflight') : r.kind = "synth" /\ (~BagIn(r, inflight) \/ inflight'[r] > inflight[r])}

\* C21: the instruction text of every synthesis request that is issued embeds
\* the strength percentage held when the synthesize trigger fired
C21_StrengthInPrompt == [][\A r \in IssuedSynthesis : ("strength" \in DOMAIN r.prompt /\ r.prompt.strength = styleStrength)]_vars

\* the step is the continuation of a settled request
SettlingStep == last'.op \in {"audit.fulfilled", "audit.rejected", "synth.fulfilled", "synth.rejected"}

\* C22: a synthesis request that is issued carries the line-art image, the
\* descriptor, the aspect-ratio bucket and the resolution tier (1K, 2K or 4K)
\* the session holds when the trigger fires, and a request in flight stays as
\* it is through every step that does not settle a request
C22_RequestCarriesTriggerState == [][(\A r \in IssuedSynthesis : (r.data = splitPayload(lineartImage) /\ r.prompt.descriptor = styleDesc /\ r.aspectRatio = aspectRatio /\ r.imageSize = selectedSize /\ r.imageSize \in ImageSizes)) /\ (~SettlingStep => \A r \in BagToSet(inflight) : (BagIn(r, inflight') /\ inflight'[r] >= inflight[r]))]_vars

C22_Witness == last.op = "setSelectedSize" /\ selectedSize = "4K" /\ \E r \in BagToSet(inflight) : (r.kind = "synth" /\ r.imageSize = "2K" /\ r.data = splitPayload(lineartImage))

\* ------------------------------------------------------- claims on status
\* C23: while a request that was issued has not settled, status does not
\* become idle, whatever else happens: after every step that leaves a request
\* of the state before it still in flight, status is not idle
C23_UnsettledStaysBusy == [][(\E r \in BagToSet(inflight) : (BagIn(r, inflight') /\ inflight'[r] >= inflight[r])) => status' # "idle"]_vars

\* C24: a result that is held was rendered from the line-art image that is
\* held; the result of a synthesis issued for an earlier line-art is never
\* stored next to a later one
C24_ResultOfHeldLineart == resultImage # Null => (lineartImage # Null /\ resultImage.payload.rendered = splitPayload(lineartImage).name)

\* C25: status is idle only if no audit and no synthesis request is in flight
C25_IdleMeansNothingInFlight == status = "idle" => inflight = EmptyBag

\* the bucket the variant's classifier gives an image of the payload's size
BucketOf(payload) == IF variant = "App.tsx" THEN calculateAspectRatio(payload.width, payload.height) ELSE classifyInline(payload.width, payload.height)

\* C26: the aspect-ratio bucket of every synthesis request in flight is the
\* bucket of the dimensions of the line-art image the same request carries
C26_BucketOfSentLineart == \A r \in BagToSet(inflight) : (r.kind = "synth" /\ r.data.decodable) => r.aspectRatio = BucketOf(r.data)

\* C27: status is rendering only if a synthesis request is in flight, and
\* analyzing only if an audit request is in flight
C27_BusyMeansRequestInFlight == (status = "rendering" => InFlightOf("synth") > 0) /\ (status = "analyzing" => InFlightOf("audit") > 0)

C27_Witness == status = "rendering" /\ InFlightOf("synth") = 1 /\ InFlightOf("audit") = 1 /\ last.op \in {"executeSynthesis", "renderLayout"}

====
